---- MODULE Spec2Model ----
(***************************************************************************)
(* A model of matrix-bun (src/index.ts): the seeded generator, the colour  *)
(* gradient table, the drops, the render pass, the resize and signal       *)
(* handlers and the frame loop of class MatrixRain.                        *)
(*                                                                         *)
(* Numbers.  TLC's integers are 32-bit signed, so a 32-bit unsigned word   *)
(* is the pair <<hi, lo>> of its 16-bit halves.  A random value r in       *)
(* [0, 1) is the word k with r = k / 2^32, which is exactly the shape of   *)
(* mulberry32's outputs.  The clock (performance.now()) is in whole        *)
(* milliseconds.  Comparisons of real quantities (r < 0.3, now >=          *)
(* nextUpdate, now - lastFrame >= 1000 / fps) are made exactly, by cross   *)
(* multiplication; the rounding of IEEE doubles is not modelled.           *)
(*                                                                         *)
(* Scheduling.  JavaScript runs each task to completion: a render pass, a  *)
(* resize listener and a signal listener are single steps, taken between   *)
(* the turns of the loop of run().  A write reaches the terminal when      *)
(* Bun.write is called.  A signal that arrives while no listener is        *)
(* registered ends the process by its default action.  The terminal always *)
(* reports positive dimensions (the fallbacks of lines 157-158 and 233-234 *)
(* are not exercised).                                                     *)
(***************************************************************************)
EXTENDS Integers, Sequences, FiniteSets, TLC

VARIABLES
    TRAIL_LENGTH,   \* the trail length of the run (index.ts:116)
    TARGET_FPS,     \* the target frame rate of the run (index.ts:117)
    COLORS,         \* the gradient table: the <<r, g, b>> of each trail offset filled so far
    m,              \* the MatrixRain object: width, height, drops, buffer, lastFrame, running
    g,              \* the random source: seeded or not, mulberry32's state, outputs consumed
    clock,          \* the last value of performance.now(), in ms
    pc,             \* "init" (constructed), "run" (in run(), before its listeners are
                    \* registered), "sleep" (the loop awaits Bun.sleep), "returned", "exited"
    exitCode,       \* the process's exit code, -1 while it lives
    term,           \* the terminal: cursor, colour, the kind of the last write, counts
    ev,             \* what the last step did (its kind, the columns advanced and recycled)
    hist,           \* per column: advances made by its drop, drops recycled in it
    lastRender,     \* the clock value of the last render pass, -1 before the first
    started,        \* the clock value at which run() entered its loop, -1 before
    signals,        \* interrupt/terminate signals delivered so far
    resizes,        \* resize events delivered so far
    twin            \* a second run given the same inputs: its m, g and ev, or <<>>

vars == <<TRAIL_LENGTH, TARGET_FPS, COLORS, m, g, clock, pc, exitCode, term, ev, hist,
          lastRender, started, signals, resizes, twin>>

----------------------------------------------------------------------------
(* 32-bit words *)

Two16 == 2^16

\* bitwise operations on n-bit numbers, bit by bit
RECURSIVE XorBits(_, _, _)
XorBits(a, b, n) ==
    IF n = 0 THEN 0
    ELSE (((a % 2) + (b % 2)) % 2) + 2 * XorBits(a \div 2, b \div 2, n - 1)

RECURSIVE OrBits(_, _, _)
OrBits(a, b, n) ==
    IF n = 0 THEN 0
    ELSE (IF (a % 2) + (b % 2) > 0 THEN 1 ELSE 0) + 2 * OrBits(a \div 2, b \div 2, n - 1)

\* the same on bytes, tabulated
XorByte == [a \in 0..255 |-> [b \in 0..255 |-> XorBits(a, b, 8)]]
OrByte == [a \in 0..255 |-> [b \in 0..255 |-> OrBits(a, b, 8)]]

Xor16(a, b) == XorByte[a % 256][b % 256] + 256 * XorByte[a \div 256][b \div 256]
Or16(a, b) == OrByte[a % 256][b % 256] + 256 * OrByte[a \div 256][b \div 256]

\* x ^ y
XorW(x, y) == <<Xor16(x[1], y[1]), Xor16(x[2], y[2])>>

\* x | y
OrW(x, y) == <<Or16(x[1], y[1]), Or16(x[2], y[2])>>

\* x >>> s, for 0 < s < 16
ShrW(x, s) == <<x[1] \div (2^s), (x[2] \div (2^s)) + ((x[1] % (2^s)) * (2^(16 - s)))>>

\* x + y | 0
AddW(x, y) ==
    LET lo == x[2] + y[2]
        hi == x[1] + y[1] + (lo \div Two16)
    IN  <<hi % Two16, lo % Two16>>

\* the low 16 bits of the product of two 16-bit numbers
MulLo16(a, b) == (((((a \div 256) * b) % 256) * 256) + ((a % 256) * b)) % Two16

\* the product of two 16-bit numbers, as a word
Mul16(a, b) ==
    LET p1 == (a \div 256) * b
        p0 == (a % 256) * b
        s  == ((p1 % 256) * 256) + p0
    IN  <<(p1 \div 256) + (s \div Two16), s % Two16>>

\* Math.imul(x, y)
ImulW(x, y) ==
    LET p == Mul16(x[2], y[2])
    IN  <<(MulLo16(x[1], y[2]) + MulLo16(x[2], y[1]) + p[1]) % Two16, p[2]>>

\* seed | 0, for an integer seed of at most 31 bits
SeedWord(seed) ==
    IF seed >= 0 THEN <<seed \div Two16, seed % Two16>>
    ELSE <<(Two16 - 1) - ((-seed - 1) \div Two16), (Two16 - 1) - ((-seed - 1) % Two16)>>

----------------------------------------------------------------------------
(* mulberry32 *)

\* 0x6D2B79F5
MulberryIncrement == <<27947, 31221>>

\* (a variant of MulberryState: the carry out of the low half is lost)
MulberryStateNoCarry(a) ==
    <<(a[1] + MulberryIncrement[1]) % Two16, (a[2] + MulberryIncrement[2]) % Two16>>

\* a = a + 0x6D2B79F5 | 0
MulberryState(a) == AddW(a, MulberryIncrement)

\* the output computed from the state just advanced, as k with output = k / 2^32
MulberryOutput(a) ==
    LET t1 == ImulW(XorW(a, ShrW(a, 15)), OrW(<<0, 1>>, a))
        t2 == XorW(AddW(t1, ImulW(XorW(t1, ShrW(t1, 7)), OrW(<<0, 61>>, t1))), t1)
    IN  XorW(t2, ShrW(t2, 14))

----------------------------------------------------------------------------
(* The gradient table (lines 128-139).  With t = i / (TRAIL_LENGTH - 1),   *)
(* Math.round(x) is the integer part of x + 1/2, computed on fractions.    *)

\* (a variant of GradientColor: red computed from t in place of 1 - t)
GradientColorRising(i) ==
    LET d == TRAIL_LENGTH - 1
        a == d - i
    IN  << ((510 * (i^3)) + (d^3)) \div (2 * (d^3)),
           ((511 * (d^3)) - (360 * i * i * ((3 * d) - (2 * i)))) \div (2 * (d^3)),
           ((510 * (a^4)) + (d^4)) \div (2 * (d^4)) >>

\* the r, g, b of rgb(r, g, b) for trail offset i (lines 131-136)
GradientColor(i) ==
    LET d == TRAIL_LENGTH - 1
        a == d - i
    IN  << ((510 * (a^3)) + (d^3)) \div (2 * (d^3)),
           ((511 * (d^3)) - (360 * i * i * ((3 * d) - (2 * i)))) \div (2 * (d^3)),
           ((510 * (a^4)) + (d^4)) \div (2 * (d^4)) >>

----------------------------------------------------------------------------
(* The random source: mulberry32(seed) when a seed is given, Math.random   *)
(* otherwise.  A call yields a set of outcomes [v, g]: the value and the   *)
(* source after the call; the set has one member when the source is        *)
(* seeded.  A seeded source is [seeded, seed, a, n]: the seed it was made  *)
(* from, mulberry32's state a and the number n of outputs taken from it;   *)
(* Math.random's state is opaque.                                          *)

\* values Math.random may return: 0, 1/4 and 15/16
RandVals == {<<0, 0>>, <<16384, 0>>, <<61440, 0>>}

\* the source created at start-up from the parsed --seed (<<>>: no seed given, <<s>>: seed s)
RandomSource(seed) ==
    IF seed = <<>> THEN [seeded |-> FALSE, seed |-> seed, a |-> <<0, 0>>, n |-> 0]
    ELSE [seeded |-> TRUE, seed |-> seed, a |-> SeedWord(seed[1]), n |-> 0]

\* (a variant of Random: the seed is ignored, every draw is Math.random's)
RandomIgnoringSeed(src) == { [v |-> r, g |-> src] : r \in RandVals }

\* random()
Random(src) ==
    IF src.seeded
    THEN LET a2 == MulberryState(src.a)
         IN  {[v |-> MulberryOutput(a2), g |-> [src EXCEPT !.a = a2, !.n = @ + 1]]}
    ELSE {[v |-> r, g |-> src] : r \in RandVals}

\* (a variant of RandomIndex: indices counted from 1)
RandomIndexFromOne(r, n) == (((r[1] * n) + ((r[2] * n) \div Two16)) \div Two16) + 1

\* (r * n) | 0, for r = k / 2^32 and a small n >= 0
RandomIndex(r, n) == ((r[1] * n) + ((r[2] * n) \div Two16)) \div Two16

\* r < p / q, for r = k / 2^32
Below(r, p, q) == (r[1] * q) + ((r[2] * q) \div Two16) < p * Two16

----------------------------------------------------------------------------
(* Drops.  A drop is [y, speed, chars, nextUpdate]: speed holds the draw r *)
(* with speed = 0.3 + r * 0.7, and nextUpdate is [base, plus], the time    *)
(* base + 100 / speed when plus holds and base otherwise.                  *)

CHAR_LEN == 82

\* (a variant of Due: nextUpdate taken to be the time of the advance plus 100, whatever
\* the speed)
DueIgnoringSpeed(now, drop) ==
    now - drop.nextUpdate.base >= (IF drop.nextUpdate.plus THEN 100 ELSE 0)

\* now >= drop.nextUpdate: (now - base) * (3 * 2^32 + 7 * k) >= 1000 * 2^32
DueSpeedFromZero(now, drop) ==
    LET dt == now - drop.nextUpdate.base
    IN  IF ~drop.nextUpdate.plus THEN dt >= 0
        ELSE /\ dt >= 0
             /\ (dt * 7 * drop.speed[1])
                  + ((dt * 7 * drop.speed[2]) \div Two16) >= 1000 * Two16

Due(now, drop) ==
    LET dt == now - drop.nextUpdate.base
    IN  IF ~drop.nextUpdate.plus THEN dt >= 0
        ELSE \/ dt >= 334
             \/ /\ dt >= 0
                /\ (dt * ((3 * Two16) + (7 * drop.speed[1])))
                     + ((dt * 7 * drop.speed[2]) \div Two16) >= 1000 * Two16

\* the TRAIL_LENGTH glyph draws of createDrop: outcomes [chars, g]
RECURSIVE DrawChars(_, _)
DrawChars(k, src) ==
    IF k = 0 THEN {[chars |-> <<>>, g |-> src]}
    ELSE UNION { { [chars |-> Append(p.chars, RandomIndex(d.v, CHAR_LEN)), g |-> d.g]
                   : d \in Random(p.g) }
                 : p \in DrawChars(k - 1, src) }

\* (a variant of StartY: a drop made with randomStart = false starts on the top row)
StartYTop(randomStart, height, src) ==
    IF randomStart
    THEN {[y |-> -RandomIndex(d.v, height), g |-> d.g] : d \in Random(src)}
    ELSE {[y |-> 0, g |-> src]}

\* the start position of createDrop: outcomes [y, g]
StartY(randomStart, height, src) ==
    IF randomStart
    THEN {[y |-> -RandomIndex(d.v, height), g |-> d.g] : d \in Random(src)}
    ELSE {[y |-> -TRAIL_LENGTH, g |-> src]}

\* createDrop(randomStart), with this.height = height: outcomes [drop, g]
createDrop(randomStart, height, src) ==
    UNION { UNION { { [drop |-> [y |-> yd.y, speed |-> sd.v, chars |-> c.chars,
                                 nextUpdate |-> [base |-> 0, plus |-> FALSE]],
                       g |-> sd.g]
                      : sd \in Random(yd.g) }
                    : yd \in StartY(randomStart, height, c.g) }
            : c \in DrawChars(TRAIL_LENGTH, src) }

\* (a variant of Visible: rows counted from 0)
VisibleFromZero(row, height) == row >= 0 /\ row <= height

\* row >= 1 && row <= this.height (lines 193 and 211)
Visible(row, height) == row >= 1 /\ row <= height

\* chars[slot] = glyph on the Uint16Array chars: a write past its end is ignored
SetGlyph(chars, slot, glyph) ==
    IF slot \in 0..(Len(chars) - 1) THEN [chars EXCEPT ![slot + 1] = glyph] ELSE chars

\* lines 191-203 for one column: outcomes [drop, writes, g, advanced, mutations],
\* mutations listing the [slot, glyph] of the glyph replaced, if one was
AdvanceDrop(drop, now, height, col, src) ==
    IF ~Due(now, drop)
    THEN {[drop |-> drop, writes |-> <<>>, g |-> src, advanced |-> FALSE,
           mutations |-> <<>>]}
    ELSE LET eraseRow == drop.y - TRAIL_LENGTH
             erase == IF Visible(eraseRow, height)
                      THEN <<[row |-> eraseRow, col |-> col, kind |-> "erase",
                              i |-> 0, glyph |-> -1]>>
                      ELSE <<>>
             moved == [drop EXCEPT !.y = @ + 1,
                                   !.nextUpdate = [base |-> now, plus |-> TRUE]]
         IN  UNION { IF Below(d.v, 3, 10)
                     THEN UNION { { [drop |-> [moved EXCEPT !.chars =
                                                 SetGlyph(@, RandomIndex(s.v, TRAIL_LENGTH),
                                                          RandomIndex(c.v, CHAR_LEN))],
                                     writes |-> erase, g |-> c.g, advanced |-> TRUE,
                                     mutations |-> <<[slot |-> RandomIndex(s.v, TRAIL_LENGTH),
                                                      glyph |-> RandomIndex(c.v, CHAR_LEN)]>>]
                                    : c \in Random(s.g) }
                                  : s \in Random(d.g) }
                     ELSE {[drop |-> moved, writes |-> erase, g |-> d.g, advanced |-> TRUE,
                            mutations |-> <<>>]}
                     : d \in Random(src) }

\* (a variant of PastBottom: the drop is replaced as soon as its head is below the
\* last row)
PastBottomHead(drop, height) == drop.y > height

\* (a variant of PastBottom: the test made with >= in place of >)
PastBottomInclusive(drop, height) == drop.y - TRAIL_LENGTH >= height

\* the test of line 205
PastBottom(drop, height) == drop.y - TRAIL_LENGTH > height

\* (a variant of RecycleDrop: the new drop created with randomStart = true)
RecycleDropScattered(drop, height, src) ==
    IF drop.y - TRAIL_LENGTH > height
    THEN {[drop |-> c.drop, g |-> c.g, recycled |-> TRUE] : c \in createDrop(TRUE, height, src)}
    ELSE {[drop |-> drop, g |-> src, recycled |-> FALSE]}

\* lines 205-207 for one column: outcomes [drop, g, recycled]
RecycleDrop(drop, height, src) ==
    IF PastBottom(drop, height)
    THEN {[drop |-> c.drop, g |-> c.g, recycled |-> TRUE] : c \in createDrop(FALSE, height, src)}
    ELSE {[drop |-> drop, g |-> src, recycled |-> FALSE]}

\* the writes of trail offsets from..TRAIL_LENGTH-1 in their gradient colour
RECURSIVE TrailWrites(_, _, _, _)
TrailWrites(drop, height, col, from) ==
    IF from >= TRAIL_LENGTH THEN <<>>
    ELSE (IF Visible(drop.y - from, height)
          THEN <<[row |-> drop.y - from, col |-> col, kind |-> "gradient",
                  i |-> from, glyph |-> drop.chars[from + 1]]>>
          ELSE <<>>) \o TrailWrites(drop, height, col, from + 1)

\* lines 209-220 for one column: outcomes [writes, g]
DrawDrop(drop, height, col, src) ==
    IF Visible(drop.y, height)
    THEN { [writes |-> <<[row |-> drop.y, col |-> col,
                          kind |-> IF Below(d.v, 1, 10) THEN "white" ELSE "gradient",
                          i |-> 0, glyph |-> drop.chars[1]]>>
                       \o TrailWrites(drop, height, col, 1),
            g |-> d.g]
           : d \in Random(src) }
    ELSE {[writes |-> TrailWrites(drop, height, col, 1), g |-> src]}

----------------------------------------------------------------------------
(* The render pass.  Column x of the code is index x + 1 of drops.         *)

\* one turn of the loop of lines 186-221, on st = [drops, buffer, g, advanced, order, mutations,
\* recycled, ok]; reading a missing drop throws (ok = FALSE)
RenderColumn(st, now, height, x) ==
    IF x + 1 > Len(st.drops) THEN {[st EXCEPT !.ok = FALSE]}
    ELSE UNION { UNION { { [drops    |-> [st.drops EXCEPT ![x + 1] = r.drop],
                            buffer   |-> st.buffer \o a.writes \o w.writes,
                            g        |-> w.g,
                            advanced |-> IF a.advanced THEN st.advanced \cup {x}
                                         ELSE st.advanced,
                            recycled |-> IF r.recycled THEN st.recycled \cup {x}
                                         ELSE st.recycled,
                            order    |-> st.order \o [j \in 1..(w.g.n - st.g.n) |-> x],
                            mutations |-> st.mutations \o a.mutations,
                            ok       |-> TRUE]
                           : w \in DrawDrop(r.drop, height, x + 1, r.g) }
                         : r \in RecycleDrop(a.drop, height, a.g) }
                 : a \in AdvanceDrop(st.drops[x + 1], now, height, x + 1, st.g) }

\* columns x, x + 1, ..., width - 1 in this order
RECURSIVE RenderFrom(_, _, _, _, _)
RenderFrom(st, now, width, height, x) ==
    IF x >= width \/ ~st.ok THEN {st}
    ELSE UNION { RenderFrom(s2, now, width, height, x + 1)
                 : s2 \in RenderColumn(st, now, height, x) }

\* render(now) on the object mm with random source src
render(mm, src, now) ==
    RenderFrom([drops |-> mm.drops, buffer |-> <<>>, g |-> src,
                advanced |-> {}, recycled |-> {}, order |-> <<>>, mutations |-> <<>>,
                ok |-> TRUE],
               now, mm.width, mm.height, 0)

----------------------------------------------------------------------------
(* The terminal, as far as the control sequences written to it go, and its *)
(* screen as the set cells of the <<row, column>> that are not blank: a    *)
(* glyph fills one cell, the space of an erase blanks one, CLEAR_SCREEN    *)
(* blanks them all.                                                        *)

\* the cells after the writes buffer[k], buffer[k + 1], ... of a frame, in this order
RECURSIVE ApplyWrites(_, _, _)
ApplyWrites(cells, buffer, k) ==
    IF k > Len(buffer) THEN cells
    ELSE ApplyWrites(IF buffer[k].kind = "erase"
                     THEN cells \ {<<buffer[k].row, buffer[k].col>>}
                     ELSE cells \cup {<<buffer[k].row, buffer[k].col>>},
                     buffer, k + 1)

\* HIDE_CURSOR + CLEAR_SCREEN (line 227)
WriteStart(t) ==
    [t EXCEPT !.cursorHidden = TRUE, !.last = "start", !.starts = @ + 1, !.cells = {},
              !.first = IF @ = "none" THEN "start" ELSE @]

\* the joined buffer of a frame (line 223)
WriteFrame(t, buffer) ==
    [t EXCEPT !.colored = @ \/ (\E k \in 1..Len(buffer) : buffer[k].kind # "erase"),
              !.last = "frame",
              !.cells = ApplyWrites(@, buffer, 1),
              !.first = IF @ = "none" THEN "frame" ELSE @]

\* CLEAR_SCREEN (line 246)
WriteClear(t) ==
    [t EXCEPT !.last = "clear", !.cells = {}, !.first = IF @ = "none" THEN "clear" ELSE @]

\* RESET + SHOW_CURSOR + CLEAR_SCREEN + moveTo(1, 1) (line 265)
WriteCleanup(t) ==
    [t EXCEPT !.colored = FALSE, !.cursorHidden = FALSE, !.last = "cleanup", !.cells = {},
              !.cleanups = @ + 1, !.first = IF @ = "none" THEN "cleanup" ELSE @]

\* nothing observed; value is the output of random() for a call of it, and
\* <<width, height, newWidth, newHeight>> for a resize
NoEvent == [op |-> "none", advanced |-> {}, recycled |-> {}, order |-> <<>>,
            mutations |-> <<>>, value |-> <<>>]

----------------------------------------------------------------------------
(* The frame loop of run().                                                *)

\* (a variant of FrameDue: the frame time taken to be TARGET_FPS, not 1000 / TARGET_FPS)
FrameDueNoDivision(now, lastFrame) == now - lastFrame >= TARGET_FPS

\* now - this.lastFrame >= frameTime, with frameTime = 1000 / TARGET_FPS (lines 249, 254)
FrameDue(now, lastFrame) == (now - lastFrame) * TARGET_FPS >= 1000

\* what process.exit(code) leaves of the process
Exit(code) == pc' = "exited" /\ exitCode' = code

\* (a variant of Turn: this.lastFrame = now is done in every turn, rendered or not)
TurnAlwaysStamps(mm, src, now) ==
    IF FrameDue(now, mm.lastFrame)
    THEN { [m  |-> IF o.ok
                   THEN [mm EXCEPT !.drops = o.drops, !.buffer = o.buffer,
                                   !.lastFrame = now]
                   ELSE [mm EXCEPT !.drops = o.drops, !.buffer = o.buffer],
            g  |-> o.g,
            ev |-> [NoEvent EXCEPT !.op = "render", !.advanced = o.advanced,
                                   !.recycled = o.recycled, !.order = o.order,
                                   !.mutations = o.mutations],
            ok |-> o.ok] : o \in render(mm, src, now) }
    ELSE {[m |-> [mm EXCEPT !.lastFrame = now], g |-> src,
           ev |-> [NoEvent EXCEPT !.op = "skip"], ok |-> TRUE]}

\* lines 252-258: one turn of the loop on the object mm with random source src
\* at clock value now; the outcomes are records [m, g, ev, ok], ok = FALSE
\* when render threw
Turn(mm, src, now) ==
    IF FrameDue(now, mm.lastFrame)
    THEN { [m  |-> IF o.ok
                   THEN [mm EXCEPT !.drops = o.drops, !.buffer = o.buffer,
                                   !.lastFrame = now]
                   ELSE [mm EXCEPT !.drops = o.drops, !.buffer = o.buffer],
            g  |-> o.g,
            ev |-> [NoEvent EXCEPT !.op = "render", !.advanced = o.advanced,
                                   !.recycled = o.recycled, !.order = o.order,
                                   !.mutations = o.mutations],
            ok |-> o.ok] : o \in render(mm, src, now) }
    ELSE {[m |-> mm, g |-> src,
           ev |-> [NoEvent EXCEPT !.op = "skip"], ok |-> TRUE]}

\* lines 252-259: one turn of the loop at clock value now, the terminal being t
Iterate(now, t) ==
    \E o \in Turn(m, g, now) :
        /\ m' = o.m
        /\ g' = o.g
        /\ ev' = o.ev
        /\ hist' = [k \in 1..Len(hist) |->
                      IF (k - 1) \in o.ev.recycled
                      THEN [age |-> 0, recycles |-> hist[k].recycles + 1]
                      ELSE IF (k - 1) \in o.ev.advanced
                      THEN [hist[k] EXCEPT !.age = @ + 1]
                      ELSE hist[k]]
        /\ IF o.ok
           THEN /\ term' = IF o.ev.op = "render" THEN WriteFrame(t, o.m.buffer) ELSE t
                /\ lastRender' = IF o.ev.op = "render" THEN now ELSE lastRender
                /\ pc' = "sleep"
                /\ UNCHANGED exitCode
           ELSE \* an uncaught TypeError rejects run()'s promise
                /\ term' = t
                /\ UNCHANGED lastRender
                /\ Exit(1)

\* run() writes HIDE_CURSOR + CLEAR_SCREEN (line 227); no listener is registered yet
RunHideCursor ==
    /\ pc = "init"
    /\ pc' = "run"
    /\ term' = WriteStart(term)
    /\ ev' = [NoEvent EXCEPT !.op = "start"]
    /\ UNCHANGED <<TRAIL_LENGTH, TARGET_FPS, COLORS, m, g, clock, exitCode, hist,
                   lastRender, started, signals, resizes>>

\* run() from the registration of its listeners to its first await: lines 229-259
RunStart ==
    /\ pc = "run"
    /\ started' = clock
    /\ Iterate(clock, term)
    /\ UNCHANGED <<TRAIL_LENGTH, TARGET_FPS, COLORS, clock, signals, resizes>>

\* Bun.sleep(5) resolves d ms after the last reading of the clock, and the loop
\* goes round once more (lines 251-259)
LoopWake(delays, maxTime) ==
    /\ pc = "sleep"
    /\ \E d \in delays :
          /\ clock + d <= maxTime
          /\ clock' = clock + d
          /\ IF m.running
             THEN Iterate(clock', term)
             ELSE /\ pc' = "returned"
                  /\ ev' = [NoEvent EXCEPT !.op = "return"]
                  /\ UNCHANGED <<m, g, term, hist, lastRender, exitCode>>
    /\ UNCHANGED <<TRAIL_LENGTH, TARGET_FPS, COLORS, started, signals, resizes>>

----------------------------------------------------------------------------
(* Resize, signals, construction.                                          *)

MaxWidth == 2
MaxHeight == 2
MaxResizes == 1
MaxSignals == 2
MaxTime == 900

\* (a variant of FillDrops: every column gets a new drop, the old ones are not kept)
RECURSIVE FillDropsAnew(_, _, _, _, _)
FillDropsAnew(acc, oldDrops, newWidth, height, x) ==
    IF x >= newWidth THEN {acc}
    ELSE UNION { FillDropsAnew([drops |-> Append(acc.drops, c.drop), g |-> c.g],
                               oldDrops, newWidth, height, x + 1)
                 : c \in createDrop(TRUE, height, acc.g) }

\* the loop of lines 239-241 from column x on, acc = [drops, g] holding the columns
\* before x; createDrop reads this.height, which is still the old height
RECURSIVE FillDrops(_, _, _, _, _)
FillDrops(acc, oldDrops, newWidth, height, x) ==
    IF x >= newWidth THEN {acc}
    ELSE IF x < Len(oldDrops)
    THEN FillDrops([acc EXCEPT !.drops = Append(@, oldDrops[x + 1])],
                   oldDrops, newWidth, height, x + 1)
    ELSE UNION { FillDrops([drops |-> Append(acc.drops, c.drop), g |-> c.g],
                           oldDrops, newWidth, height, x + 1)
                 : c \in createDrop(TRUE, height, acc.g) }

\* (a variant of Resized: the drops are not reallocated)
ResizedWithoutRealloc(mm, src, newWidth, newHeight) ==
    {[m |-> [mm EXCEPT !.width = newWidth, !.height = newHeight], g |-> src]}

\* (a variant of Resized: the listener returns at once when the width is unchanged)
ResizedOnNewWidthOnly(mm, src, newWidth, newHeight) ==
    IF newWidth = mm.width THEN {[m |-> mm, g |-> src]}
    ELSE { [m |-> [mm EXCEPT !.drops = o.drops, !.width = newWidth, !.height = newHeight],
            g |-> o.g]
           : o \in FillDrops([drops |-> <<>>, g |-> src], mm.drops, newWidth,
                             mm.height, 0) }

\* what the "resize" listener (lines 232-247) does to the object mm with random
\* source src, the terminal reporting newWidth x newHeight: outcomes [m, g]
Resized(mm, src, newWidth, newHeight) ==
    { [m |-> [mm EXCEPT !.drops = o.drops, !.width = newWidth, !.height = newHeight],
       g |-> o.g]
      : o \in (IF newWidth # mm.width
               THEN FillDrops([drops |-> <<>>, g |-> src], mm.drops, newWidth,
                              mm.height, 0)
               ELSE {[drops |-> mm.drops, g |-> src]}) }

\* (a variant of Resize: the listener is registered by the constructor, before run())
ResizeBeforeRun(newWidth, newHeight) ==
    /\ pc \in {"init", "run", "sleep", "returned"}
    /\ resizes < MaxResizes
    /\ resizes' = resizes + 1
    /\ \E o \in Resized(m, g, newWidth, newHeight) :
          /\ m' = o.m
          /\ g' = o.g
    /\ hist' = [k \in 1..newWidth |->
                  IF k <= Len(hist) THEN hist[k] ELSE [age |-> 0, recycles |-> 0]]
    /\ term' = WriteClear(term)
    /\ ev' = [NoEvent EXCEPT !.op = "resize",
                             !.value = <<m.width, m.height, newWidth, newHeight>>]
    /\ UNCHANGED <<TRAIL_LENGTH, TARGET_FPS, COLORS, clock, pc, exitCode, lastRender, started, signals>>

\* the "resize" listener running between two turns of the loop
Resize(newWidth, newHeight) ==
    /\ pc \in {"sleep", "returned"}
    /\ resizes < MaxResizes
    /\ resizes' = resizes + 1
    /\ \E o \in Resized(m, g, newWidth, newHeight) :
          /\ m' = o.m
          /\ g' = o.g
    /\ hist' = [k \in 1..newWidth |->
                  IF k <= Len(hist) THEN hist[k] ELSE [age |-> 0, recycles |-> 0]]
    /\ term' = WriteClear(term)
    /\ ev' = [NoEvent EXCEPT !.op = "resize",
                             !.value = <<m.width, m.height, newWidth, newHeight>>]
    /\ UNCHANGED <<TRAIL_LENGTH, TARGET_FPS, COLORS, clock, pc, exitCode, lastRender, started, signals>>

\* (a variant of stop: process.exit(0) left out)
stopNoExit ==
    /\ m' = [m EXCEPT !.running = FALSE]
    /\ term' = WriteCleanup(term)
    /\ UNCHANGED <<pc, exitCode>>

\* stop() (lines 263-267)
stop ==
    /\ m' = [m EXCEPT !.running = FALSE]
    /\ term' = WriteCleanup(term)
    /\ Exit(0)

\* the SIGINT and SIGTERM listeners (lines 229-230)
Signal(sig) ==
    /\ pc \in {"sleep", "returned"}
    /\ signals < MaxSignals
    /\ signals' = signals + 1
    /\ stop
    /\ ev' = [NoEvent EXCEPT !.op = sig]
    /\ UNCHANGED <<TRAIL_LENGTH, TARGET_FPS, COLORS, g, clock, hist, lastRender, started, resizes>>

\* SIGINT or SIGTERM arriving before the listeners of lines 229-230 are registered:
\* the signal's default action ends the process (status 128 + the signal's number),
\* no JavaScript runs
DefaultSignal(sig) ==
    /\ pc \in {"init", "run"}
    /\ signals < MaxSignals
    /\ signals' = signals + 1
    /\ Exit(128 + (IF sig = "SIGINT" THEN 2 ELSE 15))
    /\ ev' = [NoEvent EXCEPT !.op = "killed"]
    /\ UNCHANGED <<TRAIL_LENGTH, TARGET_FPS, COLORS, m, g, clock, term, hist,
                   lastRender, started, resizes>>

\* new MatrixRain() on a terminal of columns x rows: outcomes [m, g]
constructor(columns, rows, src) ==
    { [m |-> [width |-> columns, height |-> rows, drops |-> o.drops, buffer |-> <<>>,
              lastFrame |-> 0, running |-> TRUE],
       g |-> o.g]
      : o \in FillDrops([drops |-> <<>>, g |-> src], <<>>, columns, rows, 0) }

\* the state once the module has built its MatrixRain, for a configuration
\* c = [seed, fps, trail, columns, rows], run() being entered at clock value t0;
\* with runs = 2 a second process is started on the same configuration
InitWith(cfgs, starts, runs) ==
    \E c \in cfgs, t0 \in starts :
        /\ TRAIL_LENGTH = c.trail
        /\ TARGET_FPS = c.fps
        /\ COLORS = [k \in 1..c.trail |-> GradientColor(k - 1)]
        /\ \E o \in constructor(c.columns, c.rows, RandomSource(c.seed)) :
              m = o.m /\ g = o.g
        /\ IF runs = 2
           THEN \E o \in constructor(c.columns, c.rows, RandomSource(c.seed)) :
                   twin = [m |-> o.m, g |-> o.g, ev |-> NoEvent]
           ELSE twin = <<>>
        /\ clock = t0
        /\ pc = "init"
        /\ exitCode = -1
        /\ term = [cursorHidden |-> FALSE, colored |-> FALSE, last |-> "none",
                   first |-> "none", starts |-> 0, cleanups |-> 0, cells |-> {}]
        /\ ev = NoEvent
        /\ hist = [k \in 1..c.columns |-> [age |-> 0, recycles |-> 0]]
        /\ lastRender = -1
        /\ started = -1
        /\ signals = 0
        /\ resizes = 0

Widths == 1..MaxWidth
Heights == 1..MaxHeight
SleepDelays == {110, 340}
StartTimes == {12, 40}
\* seeded runs (the seeds of the README's examples) on terminals of 1 or 2 columns and rows
Configs ==
    {[seed |-> <<s>>, fps |-> 30, trail |-> 2, columns |-> w, rows |-> h]
       : s \in {42, 12345}, w \in {1, 2}, h \in {1, 2}}

Init == InitWith(Configs, StartTimes, 1)

Next ==
    \/ RunHideCursor /\ UNCHANGED twin
    \/ RunStart /\ UNCHANGED twin
    \/ LoopWake(SleepDelays, MaxTime) /\ UNCHANGED twin
    \/ \E w \in Widths, h \in Heights : Resize(w, h) /\ UNCHANGED twin
    \/ \E sig \in {"SIGINT", "SIGTERM"} : Signal(sig) /\ UNCHANGED twin
    \/ \E sig \in {"SIGINT", "SIGTERM"} : DefaultSignal(sig) /\ UNCHANGED twin

Spec == Init /\ [][Next]_vars

----------------------------------------------------------------------------
(* Properties of the render pass, the resize listener and the shutdown.    *)

Min(a, b) == IF a < b THEN a ELSE b

\* C1: in every render pass and for every column, the drop is replaced by a new one
\* if and only if its position, after the advance of this pass if it advanced, minus
\* TRAIL_LENGTH is greater than the height; the new drop is at -TRAIL_LENGTH with no
\* trail row on the screen, and a drop not replaced is the old one
RecycledIffPastBottom ==
    [][(ev'.op = "render" /\ pc' = "sleep") =>
        \A x \in 0..(m.width - 1) :
            LET old == m.drops[x + 1]
                new == m'.drops[x + 1]
                y1  == IF x \in ev'.advanced THEN old.y + 1 ELSE old.y
            IN  /\ (x \in ev'.recycled) <=> (y1 - TRAIL_LENGTH > m.height)
                /\ x \in ev'.recycled =>
                      /\ new.y = -TRAIL_LENGTH
                      /\ new.nextUpdate = [base |-> 0, plus |-> FALSE]
                      /\ \A i \in 0..(TRAIL_LENGTH - 1) : ~Visible(new.y - i, m'.height)
                /\ x \notin ev'.recycled => new.y = y1 /\ new.speed = old.speed]_vars

\* a render pass has just replaced a drop
RecycledWitness ==
    /\ ev.op = "render"
    /\ \E x \in ev.recycled : m.drops[x + 1].y = -TRAIL_LENGTH

\* C2: every drop's glyph buffer has TRAIL_LENGTH entries, and from one state to the
\* next the position of a column's drop does not decrease, except at a recycle, where
\* it becomes -TRAIL_LENGTH
GlyphBufferAndPosition ==
    /\ [](\A k \in 1..Len(m.drops) : Len(m.drops[k].chars) = TRAIL_LENGTH)
    /\ [][\A k \in 1..Min(Len(m.drops), Len(m'.drops)) :
            \/ m'.drops[k].y >= m.drops[k].y
            \/ /\ ev'.op = "render"
               /\ (k - 1) \in ev'.recycled
               /\ m'.drops[k].y = -TRAIL_LENGTH]_vars

\* after a resize, a render pass recycles one drop and advances another
PositionWitness ==
    /\ resizes >= 1
    /\ ev.op = "render"
    /\ ev.recycled # {}
    /\ ev.advanced \ ev.recycled # {}

\* C3: a resize from width W to W' keeps the drops of the columns below min(W, W') as
\* they are, leaves exactly W' columns, and fills the columns W..W'-1 with new drops
\* made by createDrop(true), and makes no other drop
ResizeKeepsColumns ==
    [][ev'.op = "resize" =>
        /\ Len(m'.drops) = m'.width
        /\ \A x \in 0..(Min(m.width, m'.width) - 1) : m'.drops[x + 1] = m.drops[x + 1]
        /\ \A x \in m.width..(m'.width - 1) :
              /\ m'.drops[x + 1].nextUpdate = [base |-> 0, plus |-> FALSE]
              /\ Len(m'.drops[x + 1].chars) = TRAIL_LENGTH
              /\ m'.drops[x + 1].y \in (1 - m.height)..0
        /\ g'.n = g.n + (IF m'.width > m.width
                         THEN (m'.width - m.width) * (TRAIL_LENGTH + 2) ELSE 0)]_vars

\* a resize has just added column 1 beside a column 0 whose drop had advanced
ResizeGrowWitness ==
    /\ ev.op = "resize"
    /\ Len(m.drops) = 2
    /\ m.drops[1].nextUpdate.plus
    /\ ~m.drops[2].nextUpdate.plus

\* dt * speed >= 100 for the speed 0.3 + r * 0.7 made from the draw r = k / 2^32:
\* dt * (3 * 2^32 + 7 * k) >= 1000 * 2^32; 100 / speed is at most 1000 / 3
HundredOverSpeedElapsed(dt, r) ==
    \/ dt > 333
    \/ /\ dt > 100
       /\ (dt * ((3 * Two16) + (7 * r[1]))) + ((dt * 7 * r[2]) \div Two16) >= 1000 * Two16

\* C12: in a render pass at clock value now a column's drop advances if and only if
\* now >= nextUpdate (0 for a new drop, the time of its last advance plus 100 / speed
\* otherwise); an advance adds exactly 1 to the position and sets nextUpdate to
\* now + 100 / speed; a drop that does not advance is left as it is; and two advances
\* in a row of one drop are more than 100 apart
AdvanceRule ==
    [][(ev'.op = "render" /\ pc' = "sleep") =>
        \A x \in 0..(m.width - 1) :
            LET old == m.drops[x + 1]
                new == m'.drops[x + 1]
                dt  == clock' - old.nextUpdate.base
            IN  /\ (x \in ev'.advanced) <=>
                      (IF old.nextUpdate.plus THEN HundredOverSpeedElapsed(dt, old.speed)
                       ELSE clock' >= 0)
                /\ (x \in ev'.advanced /\ x \notin ev'.recycled) =>
                      /\ new.y = old.y + 1
                      /\ new.speed = old.speed
                      /\ new.nextUpdate = [base |-> clock', plus |-> TRUE]
                /\ (x \notin ev'.advanced /\ x \notin ev'.recycled) => new = old
                /\ (x \in ev'.advanced /\ old.nextUpdate.plus) => dt > 100]_vars

\* a render pass in which the drop of one column advanced for the second time at least
\* and the drop of the other column, not yet due, did not
AdvanceRuleWitness ==
    /\ ev.op = "render"
    /\ m.width = 2
    /\ \E x \in ev.advanced : hist[x + 1].age >= 2
    /\ \E x \in 0..1 : x \notin ev.advanced /\ m.drops[x + 1].nextUpdate.plus

\* C13: every write of a render pass, glyph or erase, is at a row in 1..height and a
\* column in 1..width, for the width and height the pass ran with
WritesOnScreen ==
    ev.op = "render" =>
        \A k \in 1..Len(m.buffer) :
            /\ m.buffer[k].row \in 1..m.height
            /\ m.buffer[k].col \in 1..m.width

\* after a resize, a render pass has erased a cell and drawn nothing of a drop whose
\* head is below the last row
WritesOnScreenWitness ==
    /\ ev.op = "render"
    /\ resizes >= 1
    /\ \E k \in 1..Len(m.buffer) : m.buffer[k].kind = "erase"
    /\ \E x \in 1..Len(m.drops) : m.drops[x].y - (TRAIL_LENGTH - 1) > m.height

\* C14: a resize that reports the current width leaves the drops, the frame time and
\* the random source as they are, sets the height to the reported one and writes
\* CLEAR_SCREEN, whether or not the height changed
SameWidthResize ==
    [][(ev'.op = "resize" /\ ev'.value[3] = m.width) =>
        /\ ev'.value = <<m.width, m.height, m'.width, m'.height>>
        /\ m' = [m EXCEPT !.height = ev'.value[4]]
        /\ g' = g
        /\ term' = [term EXCEPT !.last = "clear", !.cells = {}]]_vars

\* a resize has just changed the height alone, under two columns whose drops had
\* advanced
SameWidthResizeWitness ==
    /\ ev.op = "resize"
    /\ ev.value[1] = ev.value[3]
    /\ ev.value[2] # ev.value[4]
    /\ m.width = 2
    /\ \A x \in 1..2 : m.drops[x].nextUpdate.plus

\* C15: a drop made by the constructor is at a position in -(height - 1)..0 for the
\* height of the terminal at start-up, a drop made for a new column by a resize is
\* at a position in -(height - 1)..0 for the height that resize reports, and a drop
\* made by a recycle is at -TRAIL_LENGTH
StartPositionInRange ==
    /\ [](pc = "init" => \A x \in 1..Len(m.drops) : m.drops[x].y \in (1 - m.height)..0)
    /\ [][ev'.op = "resize" =>
            \A x \in (ev'.value[1] + 1)..ev'.value[3] :
                m'.drops[x].y \in (1 - ev'.value[4])..0]_vars
    /\ [][(ev'.op = "render" /\ pc' = "sleep") =>
            \A x \in ev'.recycled : m'.drops[x + 1].y = -TRAIL_LENGTH]_vars

\* C16: HIDE_CURSOR + CLEAR_SCREEN is written once, when run() begins, and it is the
\* first thing written: before any frame, any resize clear and the cleanup
HideCursorOnceFirst ==
    /\ term.starts <= 1
    /\ term.first \in {"none", "start"}
    /\ term.last # "none" => term.starts = 1
    /\ pc \in {"run", "sleep", "returned"} => term.starts = 1
    /\ (lastRender >= 0 \/ resizes >= 1 \/ term.cleanups >= 1) =>
          term.starts = 1 /\ term.first = "start"

\* a frame, a resize clear and the cleanup have all been written
HideCursorOnceFirstWitness ==
    /\ term.starts = 1
    /\ term.first = "start"
    /\ lastRender >= 0
    /\ resizes >= 1
    /\ term.cleanups = 1
    /\ term.last = "cleanup"

\* C17: there are as many drops as the width says, one per column, each with its
\* TRAIL_LENGTH glyphs, and no render pass has thrown on a missing drop
OneDropPerColumn ==
    /\ Len(m.drops) = m.width
    /\ \A x \in 0..(m.width - 1) :
          /\ m.drops[x + 1].y \in Int
          /\ Len(m.drops[x + 1].chars) = TRAIL_LENGTH
    /\ exitCode # 1

\* a render pass has advanced, for the first time, the drop of a column added by a
\* resize after the first frame
OneDropPerColumnWitness ==
    /\ ev.op = "render"
    /\ resizes >= 1
    /\ m.width = 2
    /\ started >= 0
    /\ 1 \in ev.advanced
    /\ hist[2] = [age |-> 1, recycles |-> 0]
    /\ m.drops[2].nextUpdate.base > started

\* C18: every entry of every drop's glyph buffer and every glyph drawn is an index
\* into the alphabet, 0 <= index < CHAR_LEN, and a render pass replaces glyphs only at
\* slots in 0..TRAIL_LENGTH-1, by such an index, and changes no other entry
GlyphIndicesValid ==
    /\ [](/\ \A x \in 1..Len(m.drops) : \A i \in 1..Len(m.drops[x].chars) :
                m.drops[x].chars[i] \in 0..(CHAR_LEN - 1)
          /\ \A k \in 1..Len(m.buffer) :
                m.buffer[k].kind # "erase" => m.buffer[k].glyph \in 0..(CHAR_LEN - 1)
          /\ \A k \in 1..Len(ev.mutations) :
                /\ ev.mutations[k].slot \in 0..(TRAIL_LENGTH - 1)
                /\ ev.mutations[k].glyph \in 0..(CHAR_LEN - 1))
    /\ [][(ev'.op = "render" /\ pc' = "sleep") =>
            \A x \in 0..(m.width - 1) :
                x \notin ev'.recycled =>
                    /\ Len(m'.drops[x + 1].chars) = Len(m.drops[x + 1].chars)
                    /\ Cardinality({i \in 1..TRAIL_LENGTH :
                           m'.drops[x + 1].chars[i] # m.drops[x + 1].chars[i]}) <= 1
                    /\ x \notin ev'.advanced =>
                          m'.drops[x + 1].chars = m.drops[x + 1].chars]_vars

\* a render pass has replaced the glyph of the last slot of a trail
GlyphIndicesValidWitness ==
    /\ ev.op = "render"
    /\ \E k \in 1..Len(ev.mutations) : ev.mutations[k].slot = TRAIL_LENGTH - 1

\* C19: every cell of the screen that is not blank is in a column that has a drop, in
\* a row between the position of that drop minus TRAIL_LENGTH and its position; the
\* column of a drop just recycled is blank
ScreenHoldsTrailsOnly ==
    /\ \A c \in term.cells :
          /\ c[2] \in 1..m.width
          /\ c[1] \in (m.drops[c[2]].y - TRAIL_LENGTH)..m.drops[c[2]].y
    /\ (ev.op = "render" /\ pc = "sleep") =>
          \A x \in ev.recycled : \A c \in term.cells : c[2] # x + 1

\* after a resize, a render pass has recycled the drop of one column while the trail
\* of the other is on the screen with the cell behind it
ScreenHoldsTrailsOnlyWitness ==
    /\ ev.op = "render"
    /\ resizes >= 1
    /\ m.width = 2
    /\ ev.recycled # {}
    /\ \E c \in term.cells : c[1] = m.drops[c[2]].y - TRAIL_LENGTH

TerminalRestoredAtExit ==
    (pc = "exited" /\ term.starts >= 1) =>
        /\ ~term.cursorHidden
        /\ ~term.colored
        /\ term.last = "cleanup"

----------------------------------------------------------------------------
(* The scenario of one column on a terminal of 5 rows with a trail of 3:   *)
(* seeded runs, no resize.                                                 *)

ScenarioMaxTime == 7000
\* the sleep of line 259, when it always lasts exactly as long as asked
SLEEP_MS == 5
ScenarioDelays == {SLEEP_MS}
ScenarioConfigs ==
    {[seed |-> <<s>>, fps |-> 30, trail |-> 3, columns |-> 1, rows |-> 5] : s \in {42, 12345}}

InitScenario == InitWith(ScenarioConfigs, StartTimes, 1)

NextScenario ==
    \/ RunHideCursor /\ UNCHANGED twin
    \/ RunStart /\ UNCHANGED twin
    \/ LoopWake(ScenarioDelays, ScenarioMaxTime) /\ UNCHANGED twin

SpecScenario == InitScenario /\ [][NextScenario]_vars

\* C9: the height being fixed, a drop that started at -TRAIL_LENGTH is at
\* -TRAIL_LENGTH plus the number of its advances, each advance moves it down one row,
\* and it is recycled at its advance number height + 2 * TRAIL_LENGTH + 1, the first to
\* put it below height + TRAIL_LENGTH, and at no other step; the drop that replaces it
\* is at -TRAIL_LENGTH
DropCycle ==
    /\ [](\A k \in 1..Len(m.drops) :
            m.drops[k].y - hist[k].age = -TRAIL_LENGTH =>
                hist[k].age <= m.height + 2 * TRAIL_LENGTH)
    /\ [][\A k \in 1..Len(m.drops) :
            LET old == m.drops[k]
                new == m'.drops[k]
            IN  old.y - hist[k].age = -TRAIL_LENGTH =>
                   IF (k - 1) \in ev'.advanced /\ ev'.op = "render"
                   THEN IF hist[k].age + 1 = m.height + 2 * TRAIL_LENGTH + 1
                        THEN /\ (k - 1) \in ev'.recycled
                             /\ old.y + 1 > m.height + TRAIL_LENGTH
                             /\ new.y = -TRAIL_LENGTH
                             /\ hist'[k] = [age |-> 0, recycles |-> hist[k].recycles + 1]
                        ELSE /\ (k - 1) \notin ev'.recycled
                             /\ old.y + 1 <= m.height + TRAIL_LENGTH
                             /\ new.y = old.y + 1
                             /\ hist'[k] = [hist[k] EXCEPT !.age = @ + 1]
                   ELSE new.y = old.y /\ hist'[k] = hist[k]]_vars

\* trail 3, height 5: the drop held by the column is the third, so that the second,
\* which started at -3, went down to 8 and was recycled at its 12th advance
DropCycleWitness ==
    /\ TRAIL_LENGTH = 3
    /\ m.height = 5
    /\ ev.op = "render"
    /\ ev.recycled = {0}
    /\ hist[1] = [age |-> 0, recycles |-> 2]
    /\ m.drops[1].y = -3

----------------------------------------------------------------------------
(* Frame pacing: one column and one row, several frame rates.              *)

PacingMaxTime == 120
PacingDelays == {5, 7}
PacingConfigs ==
    {[seed |-> <<42>>, fps |-> f, trail |-> 2, columns |-> 1, rows |-> 1] : f \in {30, 60}}

InitPacing == InitWith(PacingConfigs, StartTimes, 1)

NextPacing ==
    \/ RunHideCursor /\ UNCHANGED twin
    \/ RunStart /\ UNCHANGED twin
    \/ LoopWake(PacingDelays, PacingMaxTime) /\ UNCHANGED twin
    \/ \E sig \in {"SIGINT", "SIGTERM"} : Signal(sig) /\ UNCHANGED twin

SpecPacing == InitPacing /\ [][NextPacing]_vars

\* C4: the clock value of a render pass is at least 1000 / TARGET_FPS after that of
\* the render pass before it, and at least 1000 / TARGET_FPS for the first one
NeverRenderedEarly ==
    [][lastRender' # lastRender =>
        /\ lastRender' = clock'
        /\ (lastRender' - (IF lastRender = -1 THEN 0 ELSE lastRender)) * TARGET_FPS >= 1000]_vars

\* at 30 frames per second, a second render pass 34 ms after a first one at 34 ms
SecondFrameWitness ==
    /\ TARGET_FPS = 30
    /\ ev.op = "render"
    /\ lastRender = 68
    /\ m.lastFrame = 68

\* The loop waking exactly SLEEP_MS after each turn, at several frame rates.
SteadyMaxTime == 200
SteadyConfigs ==
    {[seed |-> <<42>>, fps |-> f, trail |-> 2, columns |-> 1, rows |-> 1]
       : f \in {30, 60, 144, 200, 400, 500}}

InitSteady == InitWith(SteadyConfigs, {0, 12, 40}, 1)

NextSteady ==
    \/ RunHideCursor /\ UNCHANGED twin
    \/ RunStart /\ UNCHANGED twin
    \/ LoopWake({SLEEP_MS}, SteadyMaxTime) /\ UNCHANGED twin

SpecSteady == InitSteady /\ [][NextSteady]_vars

\* the clock value of the last render pass, or of the entry into the loop before any
LastRenderOrStart == IF lastRender = -1 THEN started ELSE lastRender

\* C5, as claimed: at every wake-up of the loop the last render pass (or the entry into
\* the loop) is at most 2 * (1000 / TARGET_FPS) back, whatever the frame rate
NoStarvationAnyFps ==
    [][clock' # clock => (clock' - LastRenderOrStart) * TARGET_FPS <= 2000]_vars

\* C5, amended: the same for the frame rates with 2 * (1000 / TARGET_FPS) >= SLEEP_MS
NoStarvation ==
    [][(clock' # clock /\ SLEEP_MS * TARGET_FPS <= 2000) =>
          (clock' - LastRenderOrStart) * TARGET_FPS <= 2000]_vars

\* at 400 frames per second the loop has rendered at three wake-ups in a row
SteadyRenderWitness ==
    /\ TARGET_FPS = 400
    /\ ev.op = "render"
    /\ lastRender = clock
    /\ clock >= started + 3 * SLEEP_MS

----------------------------------------------------------------------------
(* Two processes started with the same seed on terminals of the same size, *)
(* reading the same clock values and receiving the same resize events at   *)
(* the same points between turns of the loop.                              *)

\* one turn of the second process's loop at clock value now
TwinTurn(now) ==
    \E o \in Turn(twin.m, twin.g, now) :
        twin' = [m |-> o.m, g |-> o.g, ev |-> o.ev]

\* the second process's "resize" listener
TwinResized(newWidth, newHeight) ==
    \E o \in Resized(twin.m, twin.g, newWidth, newHeight) :
        twin' = [m |-> o.m, g |-> o.g,
                 ev |-> [NoEvent EXCEPT !.op = "resize",
                                        !.value = <<twin.m.width, twin.m.height,
                                                    newWidth, newHeight>>]]

\* the second process's first write
TwinHideCursor == twin' = [twin EXCEPT !.ev = [NoEvent EXCEPT !.op = "start"]]

InitTwin == InitWith(Configs, StartTimes, 2)

NextTwin ==
    \/ RunHideCursor /\ TwinHideCursor
    \/ RunStart /\ TwinTurn(clock)
    \/ LoopWake(SleepDelays, MaxTime) /\ TwinTurn(clock')
    \/ \E w \in Widths, h \in Heights : Resize(w, h) /\ TwinResized(w, h)

SpecTwin == InitTwin /\ [][NextTwin]_vars

----------------------------------------------------------------------------
(* The seeded generator on its own: mulberry32(seed) called MaxCalls times, *)
(* for seeds of both signs.                                                *)

MaxCalls == 12

\* 2^31 - 1, the largest seed that seed | 0 leaves as it is
MaxSeed == (Two16 * ((Two16 \div 2) - 1)) + (Two16 - 1)

Seeds == {0, 1, 42, 12345, 65536, MaxSeed, -1, -7, -65536, -MaxSeed}

InitPrng ==
    /\ TRAIL_LENGTH = 2
    /\ TARGET_FPS = 30
    /\ COLORS = <<>>
    /\ pc = "prng"
    /\ m = [width |-> 0, height |-> 0, drops |-> <<>>, buffer |-> <<>>,
            lastFrame |-> 0, running |-> TRUE]
    /\ \E seed \in Seeds : g = RandomSource(<<seed>>)
    /\ twin = <<>>
    /\ clock = 0
    /\ exitCode = -1
    /\ term = [cursorHidden |-> FALSE, colored |-> FALSE, last |-> "none",
               first |-> "none", starts |-> 0, cleanups |-> 0, cells |-> {}]
    /\ ev = NoEvent
    /\ hist = <<>>
    /\ lastRender = -1
    /\ started = -1
    /\ signals = 0
    /\ resizes = 0

\* one call of random()
PrngCall ==
    /\ pc = "prng"
    /\ g.n < MaxCalls
    /\ \E d \in Random(g) :
          /\ g' = d.g
          /\ ev' = [NoEvent EXCEPT !.op = "random", !.value = d.v]
    /\ UNCHANGED <<TRAIL_LENGTH, TARGET_FPS, COLORS, m, clock, pc, exitCode, term, hist,
                   lastRender, started, signals, resizes>>

NextPrng == PrngCall /\ UNCHANGED twin

SpecPrng == InitPrng /\ [][NextPrng]_vars

\* the word seed + n * 0x6D2B79F5 modulo 2^32, from the halves of the seed's
\* two's complement
SeedPlus(seed, n) ==
    LET hi0 == (seed \div Two16) % Two16
        lo0 == seed % Two16
        lo  == lo0 + (n * 31221)
        hi  == hi0 + (n * 27947) + (lo \div Two16)
    IN  <<hi % Two16, lo % Two16>>

\* C11: after n calls the state of the generator made from a seed is
\* seed + n * 0x6D2B79F5 modulo 2^32, and the output of every call is a word k with
\* 0 <= k < 2^32 (the value returned is k / 2^32, in [0, 1)), the one computed from
\* that state
SeededOutputs ==
    g.seeded =>
        /\ g.a = SeedPlus(g.seed[1], g.n)
        /\ ev.op = "random" =>
              /\ ev.value[1] \in 0..(Two16 - 1)
              /\ ev.value[2] \in 0..(Two16 - 1)
              /\ ev.value = MulberryOutput(SeedPlus(g.seed[1], g.n))

\* the third output of mulberry32(-7) is 2337619704 / 2^32 = 0.5442695003002882
SeededOutputsWitness ==
    /\ g.seeded
    /\ g.seed = <<-7>>
    /\ g.n = 3
    /\ ev.op = "random"
    /\ ev.value = <<35669, 16120>>

----------------------------------------------------------------------------
(* The loop without a time horizon.  Every comparison of the loop and of   *)
(* render is on a difference of times (now - lastFrame, now - nextUpdate), *)
(* so the run is kept relative to the current time: a wake-up d ms later   *)
(* moves lastFrame and every nextUpdate d ms into the past and reads the   *)
(* clock as 0.  A time 1000 ms (lastFrame, any TARGET_FPS >= 1) or 334 ms  *)
(* (nextUpdate, speed >= 0.3) or more in the past compares the same as any *)
(* older one, and is kept as that.  Math.random is any of RandVals on      *)
(* every call.                                                             *)
(*                                                                         *)
(* Fairness: the two steps of the start and the wake-up of the loop are    *)
(* weakly fair, because the runtime runs the module to its first await and *)
(* the timer of await Bun.sleep(5) always fires; a resize is an event of   *)
(* the environment and has no fairness.  The weak fairness of the wake-up  *)
(* is written out, WF_vars(LiveWake) being                                 *)
(*     []<>(~ENABLED <<LiveWake>>_vars) \/ []<><<LiveWake>>_vars,           *)
(* with the two facts that hold of every reachable state and step of       *)
(* NextLive: LiveWake is enabled, and changes the state, exactly when the  *)
(* loop is asleep and running, and the steps of LiveWake are the steps     *)
(* from such a state that are no resize (LoopResumes).                     *)

LiveDelays == {20, 110}

LiveHeights == {1, 2}

LiveConfigs ==
    {[seed |-> <<>>, fps |-> 30, trail |-> 2, columns |-> 1, rows |-> h] : h \in LiveHeights}

Shifted(mm, d) ==
    [mm EXCEPT !.lastFrame = IF mm.lastFrame - d < -1000 THEN -1000 ELSE mm.lastFrame - d,
               !.drops = [k \in 1..Len(mm.drops) |->
                            [mm.drops[k] EXCEPT !.nextUpdate =
                               [plus |-> mm.drops[k].nextUpdate.plus,
                                base |-> IF mm.drops[k].nextUpdate.base - d < -334
                                         THEN -334
                                         ELSE mm.drops[k].nextUpdate.base - d]]]]

LiveWake ==
    /\ pc = "sleep"
    /\ m.running
    /\ \E d \in LiveDelays : \E o \in Turn(Shifted(m, d), g, 0) :
          /\ m' = o.m
          /\ g' = o.g
          /\ ev' = o.ev
          /\ IF o.ok
             THEN /\ term' = IF o.ev.op = "render" THEN WriteFrame(term, o.m.buffer) ELSE term
                  /\ UNCHANGED <<pc, exitCode>>
             ELSE /\ term' = term
                  /\ Exit(1)
    /\ UNCHANGED <<TRAIL_LENGTH, TARGET_FPS, COLORS, clock, hist, lastRender, started,
                   signals, resizes>>

InitLive == InitWith(LiveConfigs, {0}, 1)

NextLive ==
    \/ RunHideCursor /\ UNCHANGED twin
    \/ RunStart /\ UNCHANGED twin
    \/ LiveWake /\ UNCHANGED twin
    \/ \E h \in LiveHeights : Resize(1, h) /\ UNCHANGED twin

LoopAsleep == pc = "sleep" /\ m.running

LoopResumes == LoopAsleep /\ UNCHANGED resizes

LoopFair == []<>(~LoopAsleep) \/ []<><<LoopResumes>>_vars

SpecLive ==
    /\ InitLive
    /\ [][NextLive]_vars
    /\ WF_vars(RunHideCursor /\ UNCHANGED twin)
    /\ WF_vars(RunStart /\ UNCHANGED twin)
    /\ LoopFair

\* C20: while the loop runs, every column's drop advances again and again
\* and is recycled again and again, and after every render pass each drop
\* has y - TRAIL_LENGTH <= height.
DropsKeepFalling ==
    /\ []<>(ev.op = "render" /\ 0 \in ev.advanced)
    /\ []<>(ev.op = "render" /\ 0 \in ev.recycled)
    /\ [](ev.op = "render" =>
            \A k \in 1..Len(m.drops) : m.drops[k].y - TRAIL_LENGTH <= m.height)

DropsKeepFallingWitness ==
    /\ ev.op = "render"
    /\ 0 \in ev.recycled
    /\ resizes >= 1
    /\ m.height = 2

----------------------------------------------------------------------------
(* The filling of the gradient table at load time, for every trail length  *)
(* from 2 to MaxTrail.                                                     *)

MaxTrail == 20

InitGradient ==
    /\ TRAIL_LENGTH \in 2..MaxTrail
    /\ TARGET_FPS = 30
    /\ COLORS = <<>>
    /\ pc = "load"
    /\ m = [width |-> 0, height |-> 0, drops |-> <<>>, buffer |-> <<>>,
            lastFrame |-> 0, running |-> TRUE]
    /\ g = RandomSource(<<>>)
    /\ twin = <<>>
    /\ clock = 0
    /\ exitCode = -1
    /\ term = [cursorHidden |-> FALSE, colored |-> FALSE, last |-> "none",
               first |-> "none", starts |-> 0, cleanups |-> 0, cells |-> {}]
    /\ ev = NoEvent
    /\ hist = <<>>
    /\ lastRender = -1
    /\ started = -1
    /\ signals = 0
    /\ resizes = 0

\* one turn of the loop of lines 130-139
GradientStep ==
    /\ pc = "load"
    /\ Len(COLORS) < TRAIL_LENGTH
    /\ COLORS' = Append(COLORS, GradientColor(Len(COLORS)))
    /\ UNCHANGED <<TRAIL_LENGTH, TARGET_FPS, m, g, clock, pc, exitCode, term, ev, hist,
                   lastRender, started, signals, resizes>>

NextGradient == GradientStep /\ UNCHANGED twin

SpecGradient == InitGradient /\ [][NextGradient]_vars

\* C10: for a trail length of 2 or more, red and blue do not increase with the trail
\* offset, every channel is in 0..255, and offset 0 is <<255, 255, 255>>
GradientMonotone ==
    TRAIL_LENGTH >= 2 =>
        /\ \A i \in 1..Len(COLORS) : \A c \in 1..3 : COLORS[i][c] \in 0..255
        /\ \A i \in 1..Len(COLORS) : \A j \in i..Len(COLORS) :
              COLORS[i][1] >= COLORS[j][1] /\ COLORS[i][3] >= COLORS[j][3]
        /\ Len(COLORS) >= 1 => COLORS[1] = <<255, 255, 255>>

\* the whole table of the default trail length, from white down to <<0, 75, 0>>
GradientWitness ==
    /\ TRAIL_LENGTH = 20
    /\ Len(COLORS) = 20
    /\ COLORS[1] = <<255, 255, 255>>
    /\ COLORS[20] = <<0, 75, 0>>
    /\ COLORS[2][1] < 255

====
